---------------------------- MODULE Spec2Model ----------------------------
(***************************************************************************)
(* A model of seag-cprs (src/main.c): main, read_file, write_file and the  *)
(* CPRS decompress routine with its bit window, its table-driven symbol    *)
(* decoder and its four-byte output accumulator.                           *)
(*                                                                         *)
(* A 32-bit word is a tuple of 32 bits, least significant first (bit i of  *)
(* the C value is w[i+1]), so shifts keep the register width.  Memory is   *)
(* modelled byte-wise where the code addresses it byte-wise (the output    *)
(* buffer and the accumulator currentValue, in memory order).              *)
(*                                                                         *)
(* The code checks no bound.  A load outside the payload or the buffer     *)
(* yields a value the program does not determine (one of GarbageWords,     *)
(* GarbageBytes), a store behind the buffer lands outside it (in past,     *)
(* where a later load finds it), and writeCarryByte starts with such a     *)
(* value; each is recorded in ub.  A fault that ends the process at such  *)
(* an access is a behaviour that stops there: the specification states no  *)
(* fairness, so every prefix of a run is a behaviour.                      *)
(***************************************************************************)
EXTENDS Integers, Sequences, FiniteSets, TLC

(***************************************************************************)
(* Bounds of the model.                                                    *)
(***************************************************************************)
\* longest symbol sequence an enumerated input stream encodes
MaxTokens == 2
\* most payload words (words 5..N-2) of an enumerated container
MaxPayload == 2
\* no decode step starts once this many bytes were emitted
MaxIndex == 12
\* no run or copy of more bytes than this is followed
MaxCount == 13

(***************************************************************************)
(* Program constants.                                                      *)
(***************************************************************************)
ERR_OK == 0
ERR_USAGE == 1
ERR_CPRS_FILE == 2
ERR_UNCPRS == 8
ERR_OUT_FILE == 16
CPRS_SIG == 1397903427
CPRS_TERM == 65538

CPRS_TABLE ==
    << 1, 3, 0, 1,
       1, 3, 2, 3,
       3, 5, 4, 11,
       8, 10, 12, 266,
       2, 6, 0, 3,
       2, 6, 4, 7,
       2, 6, 8, 11,
       3, 7, 12, 19,
       4, 8, 20, 35,
       5, 9, 36, 67,
       6, 10, 68, 131,
       7, 11, 132, 259,
       8, 12, 260, 515,
       9, 13, 516, 1027,
       10, 14, 1028, 2051,
       11, 15, 2052, 4099,
       12, 16, 4100, 8195,
       13, 17, 8196, 16387,
       14, 18, 16388, 32771,
       15, 19, 32772, 65538,
       1, 2, 4, 8,
       16, 32, 64, 128,
       256, 512, 1024, 2048,
       4096, 8192, 16384, 32768,
       65536, 131072, 262144, 524288,
       9, 18, 36, 72,
       144, 288, 576, 1152,
       2304, 4608, 9216, 18432,
       1, 36864, 9360, 67840,
       17225, 145, 102436, 9625,
       334145, 381771, 16641, 32769,
       45184, 535700, 82696, 315779,
       557237, 260269, 830933, 325595,
       67841, 54089, 9217, 39204,
       26320, 334288, 279407, 25752,
       366912, 353227, 552341, 115465,
       0, 12976821, 25952619, 30278523,
       43253793, 19464258, 28115505, 38928516,
       51905238, 34603338, 60556023, 41092062,
       62718183, 56229987, 32441145, 10813704,
       22348458, 57803355, 11993829, 1049088,
       32899791, 27198444, 60162780, 64553790,
       30081390, 16450407, 65568, 262272,
       524544, 28902189, 131136, 41747379,
       35455328, 61865995, 2359569, 8454696,
       53805467, 45679468, 47513782, 45482693,
       31654277, 7274668, 62194338, 45940821,
       40436114, 20120140, 49611252, 45548175 >>

\* CPRS_TABLE[i] with the C (zero-based) index
Table(i) == CPRS_TABLE[i + 1]

(***************************************************************************)
(* uint32_t arithmetic on bit tuples.                                      *)
(***************************************************************************)
\* the low k bits of the number n, least significant first
RECURSIVE Bits(_, _)
Bits(n, k) == IF k = 0 THEN << >> ELSE << n % 2 >> \o Bits(n \div 2, k - 1)

\* a number below 2^31 as a uint32_t
NatWord(n) == Bits(n, 32)

\* w & ((1 << k) - 1) as a number, k <= 30
RECURSIVE Low(_, _)
Low(w, k) == IF k = 0 THEN 0 ELSE w[1] + 2 * Low(Tail(w), k - 1)

\* a uint32_t whose bit 31 is clear, as a number
WordNat(w) == Low(w, 31)

\* w >> n, 0 <= n <= 31
Shr(w, n) == [i \in 1..32 |-> IF i + n \in 1..32 THEN w[i + n] ELSE 0]

\* w << n, 0 <= n <= 31
Shl(w, n) == [i \in 1..32 |-> IF i - n \in 1..32 THEN w[i - n] ELSE 0]

\* a | b
Or(a, b) == [i \in 1..32 |-> IF a[i] = 1 \/ b[i] = 1 THEN 1 ELSE 0]

\* the conversion of an int to int8_t (two's complement wrap)
ToInt8(x) == ((x + 128) % 256) - 128

SigWord == NatWord(CPRS_SIG)
ZeroWord == NatWord(0)

(***************************************************************************)
(* The inputs: files holding CPRS containers.  A stream is a sequence of   *)
(* symbols laid out in the bit order the decoder reads (lines 174-200):    *)
(* a literal is a 0 bit and the byte; a coded symbol is a 1 bit, the       *)
(* two-bit primary row p, codeLenA extra bits xa, the four-bit secondary   *)
(* row s and codeLenB extra bits xb.  The bits fill words 3, 4 and the     *)
(* payload; what is left of these words is filled with a padding bit.      *)
(***************************************************************************)
Lit(b) == << 0, b, 0, 0, 0 >>
Code(p, xa, s, xb) == << 1, p, xa, s, xb >>

codeLenA(p) == Table(p * 4) % 256
codeLenB(s) == Table(s * 4 + 16) % 256

TokenBits(t) ==
    IF t[1] = 0
    THEN << 0 >> \o Bits(t[2], 8)
    ELSE << 1 >> \o Bits(t[2], 2) \o Bits(t[3], codeLenA(t[2]))
                 \o Bits(t[4], 4) \o Bits(t[5], codeLenB(t[4]))

RECURSIVE StreamBits(_)
StreamBits(ts) == IF ts = << >> THEN << >>
                  ELSE TokenBits(Head(ts)) \o StreamBits(Tail(ts))

\* word k (from 0) of a bit sequence, padded with the bit pad
WordAt(bits, k, pad) ==
    [i \in 1..32 |-> IF 32 * k + i <= Len(bits) THEN bits[32 * k + i] ELSE pad]

LitBytes == {17, 165}
\* run of 2, run of 5
RunTokens == {Code(0, 0, 0, 0), Code(1, 1, 0, 0)}
\* copy with sym 1 and count 5, copy with sym 2 and count 2
CopyTokens == {Code(1, 1, 0, 1), Code(0, 0, 0, 2)}
\* the sentinel: secondary row 15, sym = 32772 + 32766 = CPRS_TERM
TermToken == Code(0, 0, 15, 32766)
BodyTokens == {Lit(b) : b \in LitBytes} \cup RunTokens \cup CopyTokens

Bodies == UNION {[1..n -> BodyTokens] : n \in 0..MaxTokens}
\* a stream starts at bit 0 of word 3, or behind five literals, which
\* move its symbols into the payload words
Leads == {<< >>, << Lit(1), Lit(2), Lit(3), Lit(4), Lit(5) >>}
Streams == {l \o b \o t : l \in Leads, b \in Bodies,
                          t \in {<< >>, << TermToken >>}}

\* the declared output sizes (word 2) of the enumerated containers
DeclaredSizes == {0, 5, 20}

\* a file: its length in bytes and the whole words it holds
Container(ts, n, d, pad) ==
    LET bits == StreamBits(ts)
        words == << SigWord, NatWord(4 * (n + 6)), NatWord(d),
                    WordAt(bits, 0, pad), WordAt(bits, 1, pad) >>
                 \o [k \in 1..n |-> WordAt(bits, k + 1, pad)]
                 \o << SigWord >>
    IN  [bytes |-> 4 * Len(words), words |-> words]

Containers ==
    {Container(ts, n, d, pad) : ts \in Streams, n \in 0..MaxPayload,
                                d \in DeclaredSizes, pad \in {0, 1}}


\* a valid container the malformed files are derived from
BaseContainers ==
    {Container(<< Lit(17), TermToken >>, 1, 20, 0), Container(<< >>, 0, 0, 0)}

\* c with word k (from 0) replaced
WithWord(c, k, w) == [c EXCEPT !.words[k + 1] = w]

MalformedFiles ==
    \* a byte length that is no multiple of 4 (odd, or even)
    {[c EXCEPT !.bytes = c.bytes + k] : c \in BaseContainers, k \in 1..3}
    \* at most 5 words, the signatures in place when there is room
    \cup {[bytes |-> 4 * m,
           words |-> [k \in 1..m |->
                         IF k = 1 \/ k = m THEN SigWord ELSE ZeroWord]] :
             m \in 0..5}
    \cup {[bytes |-> 2, words |-> << >>]}
    \* a first, a last word that is not the signature
    \cup {WithWord(c, 0, ZeroWord) : c \in BaseContainers}
    \cup {WithWord(c, Len(c.words) - 1, ZeroWord) : c \in BaseContainers}

Files == Containers \cup MalformedFiles

\* the files a read that ends on an error is enumerated for
PartialReads == MalformedFiles \cup BaseContainers

\* what a read of memory the program never wrote may yield
GarbageBytes == {0, 238}
GarbageWords == {ZeroWord, [i \in 1..32 |-> 1]}

(***************************************************************************)
(* The state.                                                              *)
(***************************************************************************)
VARIABLES
    pc,               \* where the program is: main, read_file, decompress,
                      \* loop, returned, write_file, exit
    argc,             \* main's argument count
    inStatus,         \* what happened to the input: none, nofile, read, error
    data,             \* compressed: the words read_file returned
    sizeBytes,        \* compressedSize: the bytes read_file returned
    heap,             \* the live allocations
    sizeOut,          \* main's decompressedSize, written through sizeOut
    decompressed,     \* what decompress returned: none, NULL, buffer
    decompressedSize, \* decompress's copy of word 2
    buffer,           \* the output buffer's bytes
    past,             \* the bytes stored behind the buffer, by position
    alpha, beta,      \* the two window registers
    remainingShifts,  \* the live-bit counter (int8_t)
    currentValue,     \* the four-byte accumulator, in memory order
    readCursor,       \* index of the next word to load from data
    writeCursor,      \* index of the next word to store into buffer
    index,            \* bytes emitted so far
    writeCarryByte,   \* the last byte emitted
    carrySet,         \* whether writeCarryByte was ever assigned
    kind,             \* history: the last decode step taken
    iVar7, iVar6,     \* history: the last coded step's symbol and count
    emitted,          \* history: the bytes stored into accumulator lanes
    ub,               \* history: the undefined accesses performed so far
    written,          \* what write_file wrote of its size bytes: none, part, all
    exitCode          \* main's return value, -1 while running

vars == << pc, argc, inStatus, data, sizeBytes, heap, sizeOut, decompressed,
           decompressedSize, buffer, past, alpha, beta, remainingShifts,
           currentValue, readCursor, writeCursor, index, writeCarryByte,
           carrySet, kind, iVar7, iVar6, emitted, ub, written, exitCode >>

mainVars == << argc, inStatus, data, sizeBytes >>
decodeVars == << decompressedSize, buffer, past, alpha, beta, remainingShifts,
                 currentValue, readCursor, writeCursor, index,
                 writeCarryByte, carrySet, kind, iVar7, iVar6, emitted, ub >>

ArgCounts == 0..4

Init ==
    /\ pc = "main"
    /\ argc \in ArgCounts
    /\ inStatus = "none"
    /\ data = << >>
    /\ sizeBytes = 0
    /\ heap = {}
    /\ sizeOut = 0
    /\ decompressed = "none"
    /\ decompressedSize = 0
    /\ buffer = << >>
    /\ past = [p \in {} |-> 0]
    /\ alpha = ZeroWord
    /\ beta = ZeroWord
    /\ remainingShifts = 0
    /\ currentValue = << 0, 0, 0, 0 >>
    /\ readCursor = 0
    /\ writeCursor = 0
    /\ index = 0
    /\ writeCarryByte = 0
    /\ carrySet = FALSE
    /\ kind = "none"
    /\ iVar7 = 0
    /\ iVar6 = 0
    /\ emitted = << >>
    /\ ub = {}
    /\ written = "none"
    /\ exitCode = -1

(***************************************************************************)
(* main, read_file, write_file.                                            *)
(***************************************************************************)
\* main, lines 42-45: the usage check
UsageOk == argc = 2 \/ argc = 3

MainUsage ==
    /\ pc = "main"
    /\ IF UsageOk
       THEN pc' = "read_file" /\ UNCHANGED exitCode
       ELSE pc' = "exit" /\ exitCode' = ERR_USAGE
    /\ UNCHANGED << mainVars, heap, sizeOut, decompressed, decodeVars, written >>

\* read_file fails to open the input; main returns ERR_CPRS_FILE
ReadFileNoFile ==
    /\ pc = "read_file"
    /\ inStatus' = "nofile"
    /\ pc' = "exit"
    /\ exitCode' = ERR_CPRS_FILE
    /\ UNCHANGED << argc, data, sizeBytes, heap, sizeOut, decompressed,
                    decodeVars, written >>

\* read_file returns the bytes fread delivered before it returned 0, at the
\* end of the file or on a read error alike
ReadFile ==
    /\ pc = "read_file"
    /\ \E f \in Files :
          /\ data' = f.words
          /\ sizeBytes' = f.bytes
          /\ inStatus' \in IF f \in PartialReads THEN {"read", "error"}
                                                ELSE {"read"}
    /\ heap' = heap \cup {"compressed"}
    /\ pc' = "decompress"
    /\ UNCHANGED << argc, sizeOut, decompressed, decodeVars, written, exitCode >>

(***************************************************************************)
(* decompress: the header checks and the set-up, lines 125-169.            *)
(***************************************************************************)
\* size, line 131
size == sizeBytes \div 4

\* lines 126-129
Aligned == sizeBytes % 4 = 0

\* lines 133-136
BigEnough == size > 5

\* a check of the leading signature alone
SignatureFirstOnly == data[1] = SigWord

\* lines 138-141
SignatureOk == data[1] = SigWord /\ data[size] = SigWord

HeaderOk == Aligned /\ BigEnough /\ SignatureOk

\* decompress returns 0 from one of its three checks; *sizeOut is not written
DecompressReject ==
    /\ pc = "decompress"
    /\ ~HeaderOk
    /\ decompressed' = "NULL"
    /\ pc' = "returned"
    /\ UNCHANGED << mainVars, heap, sizeOut, decodeVars, written, exitCode >>

\* lines 143-169: the buffer is allocated and zeroed, the registers seeded;
\* writeCarryByte is declared without a value
DecompressBegin ==
    /\ pc = "decompress"
    /\ HeaderOk
    /\ decompressedSize' = WordNat(data[3])
    /\ heap' = heap \cup {"buffer"}
    /\ buffer' = [i \in 1..WordNat(data[3]) |-> 0]
    /\ alpha' = data[4]
    /\ beta' = data[5]
    /\ remainingShifts' = 32
    /\ currentValue' = << 0, 0, 0, 0 >>
    /\ readCursor' = 5
    /\ writeCursor' = 0
    /\ index' = 0
    /\ writeCarryByte' \in GarbageBytes
    /\ carrySet' = FALSE
    /\ pc' = "loop"
    /\ UNCHANGED << mainVars, sizeOut, decompressed, past, kind, iVar7, iVar6,
                    emitted, ub, written, exitCode >>

(***************************************************************************)
(* The symbol decoder, lines 174-200, as functions of the window a.        *)
(***************************************************************************)
\* alpha & 1
IsLiteral(a) == a[1] = 0

\* the literal masked with 0x7f
LiteralByte7(a) == Low(Shr(a, 1), 7)

\* alpha >> 1 & 0xff, line 177
LiteralByte(a) == Low(Shr(a, 1), 8)

\* alpha >> 1 & 3
primaryRow(a) == Low(Shr(a, 1), 2)

\* line 187
uVar9(a) == Table(primaryRow(a) * 4)

\* line 188: (alpha >> 3) >> (uVar9 & 0xff)
rest(a) == Shr(Shr(a, 3), uVar9(a) % 256)

\* line 189
uVar5(a) == Shr(rest(a), 4)

\* line 190, as an index into CPRS_TABLE
puVar2(a) == Low(rest(a), 4) * 4 + 16

\* line 191
uVar1(a) == Table(puVar2(a))

\* line 194
Sym(a) == Table(puVar2(a) + 2) + Low(uVar5(a), uVar1(a) % 256)

\* a count without the term of the secondary row
CountFromBits(a) ==
    Table(primaryRow(a) * 4 + 2) + Low(Shr(a, 3), uVar9(a) % 256)

\* lines 198-200
Count(a) ==
    Table(primaryRow(a) * 4 + 2) + Low(Shr(a, 3), uVar9(a) % 256)
        + ((Table(puVar2(a) + 1) + 11) \div 8)

\* the bits a step takes: lines 176 and 193
BitsUsed(a) == IF IsLiteral(a) THEN 9 ELSE uVar9(a) + 7 + uVar1(a)

\* readCarryByte: lines 175 and 192
Carry(a) == IF IsLiteral(a) THEN Shr(a, 9) ELSE Shr(uVar5(a), uVar1(a) % 256)

IsTerminal(a) == ~IsLiteral(a) /\ Sym(a) >= CPRS_TERM
IsRun(a) == ~IsLiteral(a) /\ Sym(a) = 0
\* a copy class that misses the test against CPRS_TERM
IsCopyWide(a) == ~IsLiteral(a) /\ Sym(a) # 0

IsCopy(a) == ~IsLiteral(a) /\ Sym(a) # 0 /\ Sym(a) < CPRS_TERM

(***************************************************************************)
(* The bit window, lines 231-237.                                          *)
(***************************************************************************)
\* what *readCursor yields at word index rc: a payload word, the trailing
\* signature, or memory behind the bytes read_file filled
Loads(rc) ==
    IF rc < size - 1 THEN {[word |-> data[rc + 1], ub |-> {}]}
    ELSE IF rc = size - 1
         THEN {[word |-> data[rc + 1], ub |-> {"load_past_payload"}]}
         ELSE {[word |-> g, ub |-> {"load_past_payload", "load_past_input"}] :
                  g \in GarbageWords}

\* a refill that is also taken when the counter reached 0
NeedsRefillAtZero(rs) == rs <= 0

\* whether the counter went negative, line 231
NeedsRefill(rs) == rs < 0

\* a refill that shifts the carry out of the word just loaded
RefillCarryFromNew(carry, n) ==
    LET rs1 == ToInt8(remainingShifts - n)
        rs2 == ToInt8(rs1 + 32)
    IN  IF NeedsRefill(rs1)
        THEN {[alpha |-> Or(Shl(l.word, rs2), Shr(l.word, 32 - rs2)),
               beta |-> l.word,
               remainingShifts |-> rs2,
               readCursor |-> readCursor + 1,
               ub |-> l.ub] : l \in Loads(readCursor)}
        ELSE {[alpha |-> Or(Shl(beta, rs1), carry),
               beta |-> beta,
               remainingShifts |-> rs1,
               readCursor |-> readCursor,
               ub |-> {}]}

\* the registers after a step that took n bits and left carry: the set of
\* outcomes of lines 231-237
Refill(carry, n) ==
    LET rs1 == ToInt8(remainingShifts - n)
        rs2 == ToInt8(rs1 + 32)
    IN  IF NeedsRefill(rs1)
        THEN {[alpha |-> Or(Shl(l.word, rs2), Shr(beta, 32 - rs2)),
               beta |-> l.word,
               remainingShifts |-> rs2,
               readCursor |-> readCursor + 1,
               ub |-> l.ub] : l \in Loads(readCursor)}
        ELSE {[alpha |-> Or(Shl(beta, rs1), carry),
               beta |-> beta,
               remainingShifts |-> rs1,
               readCursor |-> readCursor,
               ub |-> {}]}

(***************************************************************************)
(* The output assembler.  An output state o holds the variables an         *)
(* emission changes.                                                       *)
(***************************************************************************)
OutNow ==
    [buffer |-> buffer, past |-> past, currentValue |-> currentValue,
     writeCursor |-> writeCursor, index |-> index,
     writeCarryByte |-> writeCarryByte, emitted |-> emitted, ub |-> ub]

\* whether the four bytes of word wc lie in a buffer of n bytes
WordInBuffer(wc, n) == 4 * wc + 4 <= n

\* *writeCursor = currentValue: the bytes that fall inside the buffer are
\* stored there, the others land behind it, where later loads find them
StoreWord(o) ==
    [o EXCEPT
       !.buffer = [p \in 1..Len(o.buffer) |->
                      IF p - 1 >= 4 * o.writeCursor /\ p - 1 < 4 * o.writeCursor + 4
                      THEN o.currentValue[p - 4 * o.writeCursor]
                      ELSE o.buffer[p]],
       !.past = LET word == (4 * o.writeCursor)..(4 * o.writeCursor + 3)
                    behind == {q \in word : q >= Len(o.buffer)}
                IN  IF behind = {} THEN @
                    ELSE [q \in DOMAIN @ \cup behind |->
                             IF q \in behind
                             THEN o.currentValue[q - 4 * o.writeCursor + 1]
                             ELSE @[q]],
       !.ub = IF WordInBuffer(o.writeCursor, Len(o.buffer))
              THEN @ ELSE @ \cup {"store_past_buffer"}]

\* lines 178-185 (203-210, 219-226): the byte goes to lane index & 3, and
\* a full accumulator is committed
EmitByte(o, b) ==
    LET o1 == [o EXCEPT !.index = @ + 1,
                        !.currentValue[(o.index % 4) + 1] = b,
                        !.emitted = Append(@, b)]
    IN  IF o1.index % 4 = 0
        THEN [StoreWord(o1) EXCEPT !.writeCursor = @ + 1,
                                   !.currentValue = << 0, 0, 0, 0 >>]
        ELSE o1

\* a run loop that tests before it decrements: while (--iVar6)
RECURSIVE RunLoopShort(_, _)
RunLoopShort(o, n) ==
    IF n <= 1 THEN o ELSE RunLoopShort(EmitByte(o, o.writeCarryByte), n - 1)

\* lines 202-211: while (iVar6--)
RECURSIVE RunLoop(_, _)
RunLoop(o, n) ==
    IF n = 0 THEN o ELSE RunLoop(EmitByte(o, o.writeCarryByte), n - 1)

\* a copy that never flushes the accumulator
NeverFlush(sym, idx) == FALSE

\* a flush that is taken at the odd write positions alone
NeedsFlushOdd(sym, idx) == sym * 2 < 4 /\ idx % 2 = 1

\* line 215: the flush before a copied byte is loaded
NeedsFlush(sym, idx) == sym * 2 < 4 /\ idx % 4 # 0

\* line 218: start[i], start = buffer + index - iVar7 * 2; a load behind
\* the buffer yields the byte stored there, a load of memory the program
\* never wrote yields g
LoadByte(o, pos, g) ==
    IF pos >= 0 /\ pos < Len(o.buffer)
    THEN [byte |-> o.buffer[pos + 1], ub |-> {}]
    ELSE IF pos \in DOMAIN o.past
    THEN [byte |-> o.past[pos], ub |-> {"load_past_buffer"}]
    ELSE [byte |-> g,
          ub |-> IF pos < 0 THEN {"load_before_buffer"}
                            ELSE {"load_past_buffer"}]

\* lines 213-227
RECURSIVE CopyLoop(_, _, _, _, _, _)
CopyLoop(o, sym, start, i, n, g) ==
    IF i >= n THEN o
    ELSE LET o1 == IF NeedsFlush(sym, o.index) THEN StoreWord(o) ELSE o
             l == LoadByte(o1, start + i, g)
             o2 == [o1 EXCEPT !.writeCarryByte = l.byte, !.ub = @ \cup l.ub]
         IN  CopyLoop(EmitByte(o2, l.byte), sym, start, i + 1, n, g)

(***************************************************************************)
(* The decode loop, lines 171-238, one action per kind of step.            *)
(***************************************************************************)
\* the assignments a non-terminal step ends with: the output state o and
\* one outcome of the refill
Advance(o) ==
    \E r \in Refill(Carry(alpha), BitsUsed(alpha)) :
       /\ alpha' = r.alpha
       /\ beta' = r.beta
       /\ remainingShifts' = r.remainingShifts
       /\ readCursor' = r.readCursor
       /\ buffer' = o.buffer
       /\ past' = o.past
       /\ currentValue' = o.currentValue
       /\ writeCursor' = o.writeCursor
       /\ index' = o.index
       /\ writeCarryByte' = o.writeCarryByte
       /\ emitted' = o.emitted
       /\ ub' = o.ub \cup r.ub

Running == pc = "loop" /\ index < MaxIndex

\* a run or copy the model follows
Followed == Running /\ Count(alpha) <= MaxCount

StepLiteral ==
    /\ Running
    /\ IsLiteral(alpha)
    /\ Advance(EmitByte([OutNow EXCEPT !.writeCarryByte = LiteralByte(alpha)],
                        LiteralByte(alpha)))
    /\ carrySet' = TRUE
    /\ kind' = "literal"
    /\ UNCHANGED << pc, mainVars, heap, sizeOut, decompressed,
                    decompressedSize, iVar7, iVar6, written, exitCode >>

StepRun ==
    /\ Followed
    /\ IsRun(alpha)
    /\ Advance(RunLoop([OutNow EXCEPT
                          !.ub = IF carrySet THEN @ ELSE @ \cup {"uninit_carry"}],
                       Count(alpha)))
    /\ kind' = "run"
    /\ iVar7' = Sym(alpha)
    /\ iVar6' = Count(alpha)
    /\ UNCHANGED << pc, mainVars, heap, sizeOut, decompressed,
                    decompressedSize, carrySet, written, exitCode >>

StepCopy ==
    /\ Followed
    /\ IsCopy(alpha)
    /\ \E g \in GarbageBytes :
          Advance(CopyLoop(OutNow, Sym(alpha), index - Sym(alpha) * 2, 0,
                           Count(alpha), g))
    /\ carrySet' = TRUE
    /\ kind' = "copy"
    /\ iVar7' = Sym(alpha)
    /\ iVar6' = Count(alpha)
    /\ UNCHANGED << pc, mainVars, heap, sizeOut, decompressed,
                    decompressedSize, written, exitCode >>

\* the count of the committed words alone
ReturnedCommitted == 4 * writeCursor

\* line 244: *sizeOut = index
ReturnedSize == index

\* a return without the commit of the partly filled accumulator
FinalCommitNever(o) == o

\* lines 240-242: the commit of a partly filled accumulator
FinalCommit(o) == IF o.index % 4 # 0 THEN StoreWord(o) ELSE o

\* the sentinel: line 193 has charged the bits, line 196 leaves the loop
\* before the refill, lines 240-246 commit, report the count and return
StepTerminal ==
    /\ pc = "loop"
    /\ IsTerminal(alpha)
    /\ remainingShifts' = ToInt8(remainingShifts - BitsUsed(alpha))
    /\ buffer' = FinalCommit(OutNow).buffer
    /\ past' = FinalCommit(OutNow).past
    /\ ub' = FinalCommit(OutNow).ub
    /\ sizeOut' = ReturnedSize
    /\ decompressed' = "buffer"
    /\ kind' = "terminal"
    /\ iVar7' = Sym(alpha)
    /\ pc' = "returned"
    /\ UNCHANGED << mainVars, heap, decompressedSize, alpha, beta,
                    currentValue, readCursor, writeCursor, index,
                    writeCarryByte, carrySet, iVar6, emitted, written,
                    exitCode >>

(***************************************************************************)
(* main after decompress, and write_file.                                  *)
(***************************************************************************)
\* lines 59-64
MainReturned ==
    /\ pc = "returned"
    /\ heap' = heap \ {"compressed"}
    /\ IF decompressed = "NULL"
       THEN pc' = "exit" /\ exitCode' = ERR_UNCPRS
       ELSE pc' = "write_file" /\ UNCHANGED exitCode
    /\ UNCHANGED << mainVars, sizeOut, decompressed, decodeVars, written >>

\* write_file cannot open the named output (argc = 3), lines 106-110
WriteFileNoOpen ==
    /\ pc = "write_file"
    /\ argc = 3
    /\ heap' = heap \ {"buffer"}
    /\ pc' = "exit"
    /\ exitCode' = ERR_OUT_FILE
    /\ UNCHANGED << mainVars, sizeOut, decompressed, decodeVars, written >>

\* fwrite writes fewer than size bytes, lines 112-117
WriteFileShort ==
    /\ pc = "write_file"
    /\ sizeOut > 0
    /\ written' = "part"
    /\ heap' = heap \ {"buffer"}
    /\ pc' = "exit"
    /\ exitCode' = ERR_OUT_FILE
    /\ UNCHANGED << mainVars, sizeOut, decompressed, decodeVars >>

\* fwrite writes all size bytes, lines 112-122
WriteFileOk ==
    /\ pc = "write_file"
    /\ written' = "all"
    /\ heap' = heap \ {"buffer"}
    /\ pc' = "exit"
    /\ exitCode' = ERR_OK
    /\ UNCHANGED << mainVars, sizeOut, decompressed, decodeVars >>

Next ==
    \/ MainUsage
    \/ ReadFileNoFile
    \/ ReadFile
    \/ DecompressReject
    \/ DecompressBegin
    \/ StepLiteral
    \/ StepRun
    \/ StepCopy
    \/ StepTerminal
    \/ MainReturned
    \/ WriteFileNoOpen
    \/ WriteFileShort
    \/ WriteFileOk

Spec == Init /\ [][Next]_vars

(***************************************************************************)
(* The decode loop over every coded symbol of the table: the decoder       *)
(* starts on a container whose word 3 holds one coded symbol, or a run of  *)
(* 2 and a coded symbol behind it, with every primary row, every value of  *)
(* the codeLenA extra bits and every secondary row; the bits behind the    *)
(* symbol, and word 4, are all 0 or all 1.                                 *)
(***************************************************************************)
\* the bits of a coded symbol up to its secondary row
CountBits(p, xa, s) ==
    << 1 >> \o Bits(p, 2) \o Bits(xa, codeLenA(p)) \o Bits(s, 4)

CodedWindows ==
    {WordAt(CountBits(p, xa, s), 0, fill) :
        p \in 0..3, xa \in 0..255, s \in 0..15, fill \in {0, 1}}

\* a run of 2 and a coded symbol behind it
SecondWindows ==
    {WordAt(TokenBits(Code(0, 0, 0, 0)) \o CountBits(p, xa, s), 0, fill) :
        p \in 0..3, xa \in {0, 255}, s \in {0, 14}, fill \in {0, 1}}

TableFiles ==
    {[bytes |-> 24,
      words |-> << SigWord, NatWord(24), NatWord(20), w,
                   [i \in 1..32 |-> w[32]], SigWord >>] :
        w \in CodedWindows \cup SecondWindows}

\* main has read one of the files and calls decompress
InitTable ==
    /\ pc = "decompress"
    /\ argc = 2
    /\ inStatus = "read"
    /\ \E f \in TableFiles : data = f.words /\ sizeBytes = f.bytes
    /\ heap = {"compressed"}
    /\ sizeOut = 0
    /\ decompressed = "none"
    /\ decompressedSize = 0
    /\ buffer = << >>
    /\ past = [p \in {} |-> 0]
    /\ alpha = ZeroWord
    /\ beta = ZeroWord
    /\ remainingShifts = 0
    /\ currentValue = << 0, 0, 0, 0 >>
    /\ readCursor = 0
    /\ writeCursor = 0
    /\ index = 0
    /\ writeCarryByte = 0
    /\ carrySet = FALSE
    /\ kind = "none"
    /\ iVar7 = 0
    /\ iVar6 = 0
    /\ emitted = << >>
    /\ ub = {}
    /\ written = "none"
    /\ exitCode = -1

NextTable ==
    \/ DecompressBegin
    \/ StepLiteral
    \/ StepRun
    \/ StepCopy
    \/ StepTerminal

SpecTable == InitTable /\ [][NextTable]_vars

(***************************************************************************)
(* State functions the properties are stated with.                         *)
(***************************************************************************)
\* the bits the decode steps have taken so far: the window starts here
Consumed == 32 * (readCursor - 4) - remainingShifts

\* the bits the file holds from word 3 on
StreamLen == 32 * (Len(data) - 3)

\* bit k of the stream that starts at bit 0 of word 3
StreamBit(k) == data[4 + (k \div 32)][(k % 32) + 1]

\* the byte at bits k .. k+7 of the stream
StreamByte(k) ==
    StreamBit(k) + 2 * StreamBit(k + 1) + 4 * StreamBit(k + 2)
        + 8 * StreamBit(k + 3) + 16 * StreamBit(k + 4) + 32 * StreamBit(k + 5)
        + 64 * StreamBit(k + 6) + 128 * StreamBit(k + 7)

\* the byte at output position p (from 0): in the accumulator while its
\* word is not committed, else in the buffer; -1 behind the buffer
LogicalByte(p) ==
    IF p >= 4 * writeCursor THEN currentValue[p - 4 * writeCursor + 1]
    ELSE IF p < Len(buffer) THEN buffer[p + 1]
    ELSE -1

\* the accesses outside the payload and outside the output buffer
OutOfBounds ==
    {"load_past_payload", "load_past_input", "store_past_buffer",
     "load_before_buffer", "load_past_buffer"}

\* every word the emitted bytes touch lies inside the output buffer
OutputFits == 4 * ((index + 3) \div 4) <= decompressedSize

\* the file read does not satisfy the container invariant
InputMalformed ==
    /\ inStatus \in {"read", "error"}
    /\ \/ sizeBytes % 2 = 1
       \/ sizeBytes % 4 # 0
       \/ sizeBytes \div 4 <= 5
       \/ data[1] # SigWord
       \/ data[sizeBytes \div 4] # SigWord

(***************************************************************************)
(* The properties.                                                         *)
(***************************************************************************)
\* C1: an input of odd length (or of a length that is no multiple of 4), of
\* at most 5 words, or whose first or last word is not the signature is
\* rejected: decompress returns 0, the caller's size is still the 0 main
\* set, no buffer was allocated and no decode step was taken.
C1_MalformedRejected ==
    InputMalformed =>
        /\ pc \in {"decompress", "returned", "exit"}
        /\ pc # "decompress" => decompressed = "NULL"
        /\ pc = "exit" => exitCode = ERR_UNCPRS
        /\ sizeOut = 0
        /\ "buffer" \notin heap
        /\ buffer = << >>
        /\ kind = "none"
        /\ readCursor = 0
        /\ index = 0
        /\ written = "none"

C1_Witness ==
    /\ InputMalformed
    /\ sizeBytes % 2 = 1
    /\ pc = "returned"
    /\ decompressed = "NULL"

\* C2: the read cursor never loads a word behind the last payload word
\* (word size - 2): once the payload is used up the decode fails instead.
C2_NoLoadPastPayload ==
    readCursor >= 5 => readCursor <= size - 1

\* C3: every store to the output buffer, the commits of full words and the
\* flushes and the final commit of a partly filled word, lies inside the
\* decompressedSize bytes allocated.
C3_StoresInBuffer ==
    /\ 4 * writeCursor <= decompressedSize
    /\ "store_past_buffer" \notin ub

\* C4: a container with a valid header is decoded up to the sentinel, the
\* count returned is the declared decompressedSize, and no access left the
\* payload or the output buffer.
C4_WellFormedDecodes ==
    decompressed = "buffer" =>
        /\ sizeOut = decompressedSize
        /\ ub \cap OutOfBounds = {}

\* C5: a step that decodes the sentinel after M bytes ends the decode: it
\* returns the buffer and the count M, loads no word and emits no byte, and
\* nothing is loaded or emitted afterwards.
C5_SentinelEnds ==
    [][/\ (pc = "loop" /\ alpha[1] = 1 /\ Sym(alpha) >= CPRS_TERM) =>
              /\ pc' = "returned"
              /\ decompressed' = "buffer"
              /\ sizeOut' = index
              /\ sizeOut' = Len(emitted)
              /\ index' = index
              /\ emitted' = emitted
              /\ readCursor' = readCursor
       /\ pc \in {"returned", "write_file", "exit"} =>
              /\ sizeOut' = sizeOut
              /\ decompressed' = decompressed
              /\ index' = index
              /\ emitted' = emitted
              /\ readCursor' = readCursor]_vars

\* the sentinel was decoded after some bytes, with a payload word that is
\* not zero still unread
C5_Witness ==
    /\ pc = "returned"
    /\ kind = "terminal"
    /\ sizeOut > 0
    /\ sizeOut = index
    /\ readCursor <= size - 2
    /\ data[size - 1] # ZeroWord

\* C6 as stated: after a single literal b, a copy with sym = 1 and count 5
\* emits b five times.
C6_CopyRepeatsOneByte ==
    (pc = "loop" /\ kind = "copy" /\ iVar7 = 1 /\ iVar6 = 5 /\ Len(emitted) = 6)
        => \A i \in 2..6 : emitted[i] = emitted[1]

\* C6 amended: a copy with sym = 1 reaches back 2 * sym = 2 bytes, so after
\* two bytes a, b a copy with sym = 1 and count 5 emits a, b, a, b, a, and
\* these are the bytes the output holds, when the output buffer has room
\* for the bytes emitted.
C6_CopyAlternates ==
    (pc = "loop" /\ kind = "copy" /\ iVar7 = 1 /\ iVar6 = 5
        /\ Len(emitted) >= 7 /\ OutputFits)
        => LET n == Len(emitted)
               a == emitted[n - 6]
               b == emitted[n - 5]
           IN  /\ SubSeq(emitted, n - 4, n) = << a, b, a, b, a >>
               /\ \A k \in (n - 6)..n : LogicalByte(k - 1) = emitted[k]

C6_Witness ==
    /\ pc = "loop"
    /\ kind = "copy"
    /\ iVar7 = 1
    /\ iVar6 = 5
    /\ Len(emitted) >= 7
    /\ OutputFits
    /\ emitted[Len(emitted) - 6] # emitted[Len(emitted) - 5]
    /\ emitted[Len(emitted)] = emitted[Len(emitted) - 6]

\* C7: a step with sym = 0 and count k emits k bytes, each equal to
\* lastByte (writeCarryByte, the byte emitted last), advances the write
\* index by k and leaves lastByte as it was.
C7_RunEmitsLastByte ==
    [][(pc = "loop" /\ alpha[1] = 1 /\ Sym(alpha) = 0) =>
          LET k == Count(alpha)
          IN  /\ index' = index + k
              /\ writeCarryByte' = writeCarryByte
              /\ emitted' = emitted \o [i \in 1..k |-> writeCarryByte]
              /\ index > 0 => writeCarryByte = emitted[Len(emitted)]
              /\ \A p \in index..(index + k - 1) :
                    LogicalByte(p)' \in {writeCarryByte, -1}]_vars

\* a run of 5 has repeated the literal decoded before it
C7_Witness ==
    /\ pc = "loop"
    /\ kind = "run"
    /\ iVar6 = 5
    /\ carrySet
    /\ index = 6
    /\ emitted = [i \in 1..6 |-> 165]
    /\ writeCarryByte = 165

\* C8: a literal step takes 9 bits and emits the byte at bits 1..8 of the
\* window, which is the byte the stream holds at that place, whatever the
\* alignment of the write index; the byte lands at the position written.
C8_LiteralSteps ==
    [][(pc = "loop" /\ alpha[1] = 0) =>
          LET b == Low(Shr(alpha, 1), 8)
          IN  /\ Consumed' = Consumed + 9
              /\ index' = index + 1
              /\ emitted' = Append(emitted, b)
              /\ writeCarryByte' = b
              /\ \A p \in {index} : LogicalByte(p)' \in {b, -1}
              /\ Consumed + 9 <= StreamLen => b = StreamByte(Consumed + 1)]_vars

\* literals were decoded one after the other across a word boundary of the
\* output, the last one into lane 2
C8_Witness ==
    /\ pc = "loop"
    /\ kind = "literal"
    /\ index = 7
    /\ emitted = << 1, 2, 3, 4, 5, 165, 17 >>
    /\ buffer = << 1, 2, 3, 4 >> \o [i \in 1..16 |-> 0]
    /\ currentValue = << 5, 165, 17, 0 >>

\* C9: the exit code is 1 for a wrong argument count, 2 when the input
\* could not be read, 8 when decompress failed, 16 when the output was not
\* written in full and 0 otherwise; nothing is written unless decompress
\* succeeded.
C9_ExitCodes ==
    /\ pc = "exit" =>
          exitCode = IF argc # 2 /\ argc # 3 THEN 1
                     ELSE IF inStatus # "read" THEN 2
                     ELSE IF decompressed # "buffer" THEN 8
                     ELSE IF written # "all" THEN 16
                     ELSE 0
    /\ written # "none" => decompressed = "buffer"

\* the window holds bits Consumed .. Consumed+31 of the stream, as far as
\* the file holds them
WindowMatches ==
    pc = "loop" =>
        \A j \in 0..31 :
           Consumed + j < StreamLen => alpha[j + 1] = StreamBit(Consumed + j)

\* C10 as stated: the window is the stream at the bits consumed, and every
\* step loads a word exactly when the counter went negative, at most one.
C10_WindowEveryStep ==
    /\ []WindowMatches
    /\ [][pc = "loop" =>
             /\ Consumed' = Consumed + BitsUsed(alpha)
             /\ readCursor' \in {readCursor, readCursor + 1}
             /\ readCursor' = readCursor + 1
                   <=> remainingShifts - BitsUsed(alpha) < 0]_vars

\* C10 amended: as stated for every step but the one that decodes the
\* sentinel, which charges its bits and loads no word even when the
\* counter went negative.
C10_Window ==
    /\ []WindowMatches
    /\ [][pc = "loop" =>
             /\ Consumed' = Consumed + BitsUsed(alpha)
             /\ readCursor' \in {readCursor, readCursor + 1}
             /\ pc' = "loop" =>
                   (readCursor' = readCursor + 1
                       <=> remainingShifts - BitsUsed(alpha) < 0)
             /\ pc' # "loop" => readCursor' = readCursor]_vars

\* two payload words were loaded and the window lies in them
C10_Witness ==
    /\ pc = "loop"
    /\ readCursor = 7
    /\ size = 8
    /\ Consumed > 64
    /\ alpha # ZeroWord
    /\ data[6] # ZeroWord
    /\ ub = {}

\* the bits a coded symbol of primary row p and secondary row s takes
CodedBits(p, s) == Table(p * 4) + 7 + Table(s * 4 + 16)

\* C11: the live-bit counter is 32 when the loop is entered and in 0..32 at
\* the start of every step; a step takes 9 bits (literal) or codeLenA + 7 +
\* codeLenB bits (coded symbol), between 9 and 30 for every row of the
\* table, so the counter is never below -30 before the refill and fits its
\* int8_t, and the window is rebuilt with shifts by 0..31: beta is shifted
\* left by the new counter, and right by 32 less the new counter when a
\* word was loaded.
C11_Counter ==
    /\ [](pc = "loop" => remainingShifts \in 0..32)
    /\ [][/\ (pc = "decompress" /\ pc' = "loop") => remainingShifts' = 32
          /\ pc = "loop" =>
                LET n == BitsUsed(alpha)
                    rs1 == remainingShifts - n
                IN  /\ \A p \in 0..3, s \in 0..15 : CodedBits(p, s) \in 10..30
                    /\ n = IF alpha[1] = 0 THEN 9
                           ELSE CodedBits(Low(Shr(alpha, 1), 2), Low(rest(alpha), 4))
                    /\ n \in 9..30
                    /\ rs1 \in (-30)..23
                    /\ ToInt8(rs1) = rs1
                    /\ pc' = "loop" =>
                          /\ remainingShifts' = IF rs1 < 0 THEN rs1 + 32 ELSE rs1
                          /\ remainingShifts' \in 0..31
                          /\ readCursor' # readCursor =>
                                32 - remainingShifts' \in 0..31
                    /\ pc' # "loop" => remainingShifts' = rs1]_vars

\* a coded step took the counter to 0 and the next step started there,
\* and a step took the counter below 0 and a word was loaded
C11_Witness ==
    /\ pc = "loop"
    /\ kind \in {"run", "copy"}
    /\ remainingShifts = 0
    /\ readCursor = 6

\* C12: a copy step with count n at write index w whose source start
\* w - 2 * sym is not negative emits n bytes with out[w+i] = out[w-2*sym+i],
\* out being the bytes emitted in order: a byte emitted earlier by the same
\* copy, and a byte still held in the accumulator alone, is a valid source
\* (for 2 * sym < n the source pattern repeats); the bytes before w are
\* kept, and the buffer and the accumulator hold the bytes emitted.
C12_ForwardCopy ==
    [][(pc = "loop" /\ alpha[1] = 1 /\ Sym(alpha) # 0 /\ Sym(alpha) < CPRS_TERM
          /\ index - 2 * Sym(alpha) >= 0) =>
          LET w == index
              d == 2 * Sym(alpha)
              n == Count(alpha)
          IN  /\ index' = w + n
              /\ Len(emitted') = w + n
              /\ SubSeq(emitted', 1, w) = emitted
              /\ \A i \in 0..(n - 1) :
                    emitted'[w + i + 1] = emitted'[w - d + i + 1]
              /\ \A q \in {r \in 0..(w + n - 1) : r < decompressedSize} :
                    \A m \in {q} : LogicalByte(m)' = emitted'[q + 1]]_vars

\* a copy of 5 bytes from 2 bytes back that started at write index 6, with
\* both source bytes (5 and 165) in the accumulator alone
C12_Witness ==
    /\ pc = "loop"
    /\ kind = "copy"
    /\ iVar7 = 1
    /\ iVar6 = 5
    /\ emitted = << 1, 2, 3, 4, 5, 165, 5, 165, 5, 165, 5 >>
    /\ currentValue = << 5, 165, 5, 0 >>
    /\ ub = {}

\* the class of the step the window a starts, from its bits
StepClass(a) ==
    IF a[1] = 0 THEN "literal"
    ELSE IF Sym(a) >= CPRS_TERM THEN "terminal"
    ELSE IF Sym(a) = 0 THEN "run"
    ELSE "copy"

\* C13: every decode step is of exactly one class, literal (bit 0 is 0),
\* terminal (sym >= 0x10002), run (sym = 0) or copy, and is carried out as
\* that class; a literal, run or copy step returns to the head of the loop;
\* the loop is left only by the step that decodes the sentinel, which
\* returns the buffer (an input that fails the header checks is turned
\* away before the loop, without a step); once the loop is left no step is
\* taken and the loop is not entered again.
C13_StepClasses ==
    [][/\ pc = "loop" =>
             /\ kind' = StepClass(alpha)
             /\ Cardinality({c \in {"literal", "terminal", "run", "copy"} :
                     \/ c = "literal" /\ IsLiteral(alpha)
                     \/ c = "terminal" /\ IsTerminal(alpha)
                     \/ c = "run" /\ IsRun(alpha)
                     \/ c = "copy" /\ IsCopy(alpha)}) = 1
             /\ StepClass(alpha) \in {"literal", "run", "copy"} =>
                    pc' = "loop" /\ index' > index
             /\ StepClass(alpha) = "terminal" =>
                    pc' = "returned" /\ decompressed' = "buffer"
             /\ pc' # "loop" => StepClass(alpha) = "terminal"
       /\ pc' = "loop" => pc \in {"decompress", "loop"}
       /\ pc = "decompress" =>
             /\ kind' = "none"
             /\ pc' \in {"loop", "returned"}
             /\ pc' = "returned" => decompressed' = "NULL"
       /\ pc \in {"returned", "write_file", "exit"} =>
             /\ pc' \in {"returned", "write_file", "exit"}
             /\ kind' = kind
             /\ emitted' = emitted
             /\ index' = index
             /\ readCursor' = readCursor]_vars

\* five literals, a run of 2, a copy of 2 bytes and the sentinel were
\* decoded in this order
C13_Witness ==
    /\ pc = "returned"
    /\ kind = "terminal"
    /\ decompressed = "buffer"
    /\ emitted = << 1, 2, 3, 4, 5, 5, 5, 4, 5 >>
    /\ iVar6 = 2
    /\ sizeOut = 9

\* the byte in memory at buffer + p: in the buffer, or behind it where a
\* store left it; -1 where the program stored nothing
MemoryByte(p) ==
    IF p < Len(buffer) THEN buffer[p + 1]
    ELSE IF p \in DOMAIN past THEN past[p]
    ELSE -1

\* C14: at the start of every decode step and at return the memory at
\* buffer and the accumulator hold the bytes emitted: the bytes below the
\* write index rounded down to a multiple of 4 are in memory (the write
\* cursor stands there), the bytes from there to the write index are in the
\* accumulator lanes, and in memory too at return; every buffer byte from
\* the write index on and every accumulator lane from index & 3 on is 0.
C14_Representation ==
    (pc = "loop" \/ (pc = "returned" /\ decompressed = "buffer")) =>
        LET base == 4 * (index \div 4)
        IN  /\ Len(emitted) = index
            /\ 4 * writeCursor = base
            /\ \A p \in 0..(base - 1) : MemoryByte(p) = emitted[p + 1]
            /\ \A p \in base..(index - 1) :
                  /\ currentValue[p - base + 1] = emitted[p + 1]
                  /\ MemoryByte(p) \in {emitted[p + 1], 0, -1}
                  /\ pc = "returned" => MemoryByte(p) = emitted[p + 1]
            /\ \A p \in index..(Len(buffer) - 1) : buffer[p + 1] = 0
            /\ \A p \in DOMAIN past : p >= index => past[p] = 0
            /\ \A l \in (index % 4)..3 : currentValue[l + 1] = 0

\* the decode returned after 7 bytes: 4 in a committed word, 3 committed
\* from the accumulator at return, the rest of the buffer still 0
C14_Witness ==
    /\ pc = "returned"
    /\ decompressed = "buffer"
    /\ index = 7
    /\ emitted = << 1, 2, 3, 4, 5, 165, 17 >>
    /\ currentValue = << 5, 165, 17, 0 >>
    /\ buffer = << 1, 2, 3, 4, 5, 165, 17 >> \o [i \in 1..13 |-> 0]

\* C15: at every copy step the source start, write index - 2 * sym, lies in
\* the output written so far, 0 <= start < write index, and no copy loads a
\* byte from before the start of the output buffer.
C15_CopySourceInOutput ==
    /\ (pc = "loop" /\ alpha[1] = 1 /\ Sym(alpha) # 0 /\ Sym(alpha) < CPRS_TERM)
          => /\ 0 <= index - 2 * Sym(alpha)
             /\ index - 2 * Sym(alpha) < index
    /\ "load_before_buffer" \notin ub

\* C16: whenever a run step is taken, lastByte (writeCarryByte) holds a byte
\* that an earlier literal or copy step of this decode emitted: no run
\* replays a value that was never assigned, a run that is the first symbol
\* of the stream included.
C16_RunAfterAssignment ==
    /\ (pc = "loop" /\ alpha[1] = 1 /\ Sym(alpha) = 0) =>
          /\ carrySet
          /\ index > 0
          /\ writeCarryByte = emitted[Len(emitted)]
    /\ "uninit_carry" \notin ub

\* C17: for every window on the coded-symbol path the repeat count,
\* primaryRow.col2 + the codeLenA extra bits + ((secondaryRow.col1 + 11) >> 3),
\* lies in 2..270; a run or copy step emits that many bytes, and the write
\* index grows on every step but the terminal one.
C17_CountRange ==
    /\ [](pc = "loop" /\ alpha[1] = 1 =>
            /\ Count(alpha) \in 2..270
            /\ Count(alpha) =
                  Table(Low(Shr(alpha, 1), 2) * 4 + 2)
                    + Low(Shr(alpha, 3), codeLenA(Low(Shr(alpha, 1), 2)))
                    + ((Table(puVar2(alpha) + 1) + 11) \div 8))
    /\ [][pc = "loop" =>
             /\ pc' = "loop" => index' > index
             /\ (pc' = "loop" /\ alpha[1] = 1) =>
                    /\ index' - index = Count(alpha)
                    /\ Len(emitted') - Len(emitted) = Count(alpha)
                    /\ index' - index \in 2..270
             /\ pc' # "loop" => index' = index]_vars

\* a run of the least count, 2, was emitted, and the window that follows
\* it holds a copy of the greatest count, 270
C17_Witness ==
    /\ pc = "loop"
    /\ kind = "run"
    /\ iVar6 = 2
    /\ index = 2
    /\ alpha[1] = 1
    /\ Sym(alpha) # 0
    /\ Sym(alpha) < CPRS_TERM
    /\ Count(alpha) = 270

=============================================================================
